---- MODULE Spec2Model ----
(***************************************************************************)
(* Model of the smartspot chart pipeline (src/components/chartView.tsx),   *)
(* the spot-price proxy (src/app/api/spot/route.ts) and the page that      *)
(* feeds the chart (src/app/page.tsx).                                     *)
(*                                                                         *)
(* Time is epoch milliseconds counted from a local midnight ("day 0"), in  *)
(* a zone without daylight-saving shifts.  Prices are integers (the raw    *)
(* price in an arbitrary fixed-point unit); the mean is kept as an exact   *)
(* fraction.  An optional JavaScript value (null / undefined / NaN) is the *)
(* empty tuple <<>>, a present value v is <<v>>.                           *)
(***************************************************************************)
EXTENDS Integers, Sequences, FiniteSets, TLC

\* ------------------------------------------------------------ constants
MsPerMinute == 60000
MsPerHour == 60 * MsPerMinute
MsPerDay == 24 * MsPerHour
DefaultStepMinutes == 60
GreenHours == 6
YellowHours == 12
valueMultiplier == 100
BarPadding == 16
BarFillPercent == 92
TickHours == 2

\* ------------------------------------------------------------ bounds
\* Longest record sequence enumerated exhaustively over RecordPool.
MaxLen == 2
\* Most calls of loadPrices in one run of the page.
MaxLoads == 2

None == <<>>
Some(v) == <<v>>

Max(a, b) == IF a >= b THEN a ELSE b
Min(a, b) == IF a <= b THEN a ELSE b

\* Math.round of the non-negative quotient n/d: floor(n/d + 1/2).
RoundDiv(n, d) == (2 * n + d) \div (2 * d)

\* ------------------------------------------------------------ Date
\* new Date(string).getTime(): NaN for a string that is no date.
DateParse(dt) == IF dt.kind = "iso" THEN Some(dt.t) ELSE None

\* formatDayKey: the local calendar date of the instant, here its day number.
formatDayKey(t) == t \div MsPerDay

getHours(t) == (t % MsPerDay) \div MsPerHour

\* ------------------------------------------------------------ sorting
\* Array.prototype.sort with comparator a[f] - b[f]: stable, ascending.
RECURSIVE InsertSorted(_, _, _)
InsertSorted(s, x, f) ==
    IF s = <<>> THEN <<x>>
    ELSE IF s[Len(s)][f] <= x[f] THEN Append(s, x)
    ELSE Append(InsertSorted(SubSeq(s, 1, Len(s) - 1), x, f), s[Len(s)])

RECURSIVE SortByField(_, _)
SortByField(s, f) ==
    IF s = <<>> THEN <<>>
    ELSE InsertSorted(SortByField(SubSeq(s, 1, Len(s) - 1), f), s[Len(s)], f)

RECURSIVE InsertInt(_, _)
InsertInt(s, x) ==
    IF s = <<>> THEN <<x>>
    ELSE IF s[Len(s)] <= x THEN Append(s, x)
    ELSE Append(InsertInt(SubSeq(s, 1, Len(s) - 1), x), s[Len(s)])

RECURSIVE SortInts(_)
SortInts(s) ==
    IF s = <<>> THEN <<>>
    ELSE InsertInt(SortInts(SubSeq(s, 1, Len(s) - 1)), s[Len(s)])

\* ------------------------------------------------------------ Normalizer
\* ToPoint rejecting a price by falsiness (!rawPrice), so also a price of 0.
ToPointFalsyPrice(item, tax) ==
    IF item.DateTime.kind \in {"absent", "empty"} THEN None
    ELSE LET rawPrice == IF tax THEN item.PriceWithTax ELSE item.PriceNoTax
         IN  IF rawPrice = None \/ rawPrice = Some(0) THEN None
             ELSE LET date == DateParse(item.DateTime)
                  IN  IF date = None THEN None
                      ELSE Some([price |-> rawPrice[1] * valueMultiplier,
                                 timestamp |-> date[1],
                                 dayKey |-> formatDayKey(date[1])])

\* The map callback of chartData: null (None) for a rejected record.
ToPoint(item, tax) ==
    IF item.DateTime.kind \in {"absent", "empty"} THEN None
    ELSE LET rawPrice == IF tax THEN item.PriceWithTax ELSE item.PriceNoTax
         IN  IF rawPrice = None THEN None
             ELSE LET date == DateParse(item.DateTime)
                  IN  IF date = None THEN None
                      ELSE Some([price |-> rawPrice[1] * valueMultiplier,
                                 timestamp |-> date[1],
                                 dayKey |-> formatDayKey(date[1])])

RECURSIVE MapFilter(_, _)
MapFilter(items, tax) ==
    IF items = <<>> THEN <<>>
    ELSE LET p == ToPoint(Head(items), tax)
         IN  (IF p = None THEN <<>> ELSE <<p[1]>>) \o MapFilter(Tail(items), tax)

ChartData(items, tax) == SortByField(MapFilter(items, tax), "timestamp")

\* ------------------------------------------------------------ Interval Estimator
PositiveDiffs(cd) ==
    SelectSeq([i \in 1..(Len(cd) - 1) |-> cd[i + 1].timestamp - cd[i].timestamp],
              LAMBDA diff : diff > 0)

\* The lower-middle index instead of floor(n / 2).
MedianIndexLower(n) == (n - 1) \div 2

\* diffs[Math.floor(diffs.length / 2)], as a 0-based index.
MedianIndex(n) == n \div 2

\* The tail of stepMinutes, from the sorted positive diffs on.
MinutesOf(diffs) ==
    IF Len(diffs) = 0 THEN DefaultStepMinutes
    ELSE LET median == diffs[MedianIndex(Len(diffs)) + 1]
             minutes == RoundDiv(median, MsPerMinute)
         IN  IF minutes = 0 THEN DefaultStepMinutes ELSE minutes

StepMinutes(cd) ==
    IF Len(cd) < 2 THEN DefaultStepMinutes
    ELSE MinutesOf(SortInts(PositiveDiffs(cd)))

PointsPerHour(step) == Max(1, RoundDiv(60, step))

\* ------------------------------------------------------------ Day Ranker/Colorer
\* grouped.get(dayKey): the day's points in input order.
Bucket(cd, day) == SelectSeq(cd, LAMBDA point : point.dayKey = day)

\* ranks: Map<timestamp, index>, filled by sorted.forEach in ascending index
\* order, so a later entry with the same timestamp overwrites an earlier one.
Ranks(sorted) ==
    [t \in {sorted[i].timestamp : i \in DOMAIN sorted} |->
        (CHOOSE i \in DOMAIN sorted :
            /\ sorted[i].timestamp = t
            /\ \A j \in DOMAIN sorted : j > i => sorted[j].timestamp # t) - 1]

\* The body of grouped.forEach for one day's bucket.
MetaOf(points, pph) ==
    [ranks |-> Ranks(SortByField(points, "price")),
     greenLimit |-> Min(Len(points), GreenHours * pph),
     yellowLimit |-> Min(Len(points), YellowHours * pph)]

DayMeta(cd, pph) ==
    [day \in {cd[i].dayKey : i \in DOMAIN cd} |-> MetaOf(Bucket(cd, day), pph)]

Fill(rank, meta) ==
    IF rank < meta.greenLimit THEN "low"
    ELSE IF rank < meta.yellowLimit THEN "mid"
    ELSE "high"

\* The chartData.map of coloredData.
Colored(cd, dayMeta) ==
    [i \in DOMAIN cd |->
        [price |-> cd[i].price,
         timestamp |-> cd[i].timestamp,
         dayKey |-> cd[i].dayKey,
         fill |-> Fill(dayMeta[cd[i].dayKey].ranks[cd[i].timestamp],
                       dayMeta[cd[i].dayKey])]]

ColoredData(cd, pph) == Colored(cd, DayMeta(cd, pph))

\* ------------------------------------------------------------ Visibility Filter
\* The filter predicate with <= for <.
KeepInclusive(entry, now, ms) == now <= entry.timestamp + ms

Keep(entry, now, ms) == now < entry.timestamp + ms

VisibleData(colored, sp, ms, now) ==
    IF sp THEN colored
    ELSE SelectSeq(colored, LAMBDA entry : Keep(entry, now, ms))

\* ------------------------------------------------------------ Annotator
RECURSIVE TickLoop(_, _, _)
TickLoop(tick, end, ticks) ==
    IF tick <= end
    THEN TickLoop(tick + TickHours * MsPerHour, end, Append(ticks, tick))
    ELSE ticks

AxisTicks(vis) ==
    IF Len(vis) = 0 THEN None
    ELSE LET start == vis[1].timestamp
             end == vis[Len(vis)].timestamp
             atHour == start - (start % MsPerHour)
             nextHour == IF atHour < start THEN atHour + MsPerHour ELSE atHour
             evenHour == IF getHours(nextHour) % 2 # 0
                         THEN nextHour + MsPerHour ELSE nextHour
         IN  Some(TickLoop(evenHour, end, <<>>))

\* MarkerLoop without the update of lastDay.
RECURSIVE MarkerLoopStaleDay(_, _, _, _, _)
MarkerLoopStaleDay(vis, i, lastDay, halfStepMs, markers) ==
    IF i > Len(vis) THEN markers
    ELSE IF vis[i].dayKey # lastDay
         THEN MarkerLoopStaleDay(vis, i + 1, lastDay, halfStepMs,
                                 Append(markers, [x |-> vis[i].timestamp - halfStepMs,
                                                  label |-> vis[i].dayKey]))
         ELSE MarkerLoopStaleDay(vis, i + 1, lastDay, halfStepMs, markers)

RECURSIVE MarkerLoop(_, _, _, _, _)
MarkerLoop(vis, i, lastDay, halfStepMs, markers) ==
    IF i > Len(vis) THEN markers
    ELSE IF vis[i].dayKey # lastDay
         THEN MarkerLoop(vis, i + 1, vis[i].dayKey, halfStepMs,
                         Append(markers, [x |-> vis[i].timestamp - halfStepMs,
                                          label |-> vis[i].dayKey]))
         ELSE MarkerLoop(vis, i + 1, lastDay, halfStepMs, markers)

DayChangeMarkers(vis, ms) ==
    IF Len(vis) = 0 THEN <<>>
    ELSE MarkerLoop(vis, 2, vis[1].dayKey, ms \div 2, <<>>)

\* NowLineTimestamp with the range taken as open at its ends.
NowLineTimestampOpen(vis, now) ==
    IF Len(vis) = 0 THEN None
    ELSE IF now <= vis[1].timestamp \/ now >= vis[Len(vis)].timestamp THEN None
         ELSE Some(now)

NowLineTimestamp(vis, now) ==
    IF Len(vis) = 0 THEN None
    ELSE IF now < vis[1].timestamp \/ now > vis[Len(vis)].timestamp THEN None
         ELSE Some(now)

\* ------------------------------------------------------------ summary statistics
RECURSIVE MinOf(_)
MinOf(values) ==
    IF Len(values) = 1 THEN values[1] ELSE Min(Head(values), MinOf(Tail(values)))

RECURSIVE MaxOf(_)
MaxOf(values) ==
    IF Len(values) = 1 THEN values[1] ELSE Max(Head(values), MaxOf(Tail(values)))

RECURSIVE SumOf(_)
SumOf(values) == IF values = <<>> THEN 0 ELSE Head(values) + SumOf(Tail(values))

\* avg is the exact fraction sum / count.
StatsOf(values) ==
    [min |-> MinOf(values),
     max |-> MaxOf(values),
     avg |-> [num |-> SumOf(values), den |-> Len(values)]]

\* Stats reporting zeros for an empty visible set.
StatsZeroWhenEmpty(vis) ==
    IF Len(vis) = 0 THEN Some([min |-> 0, max |-> 0, avg |-> [num |-> 0, den |-> 1]])
    ELSE Some(StatsOf([i \in DOMAIN vis |-> vis[i].price]))

Stats(vis) ==
    IF Len(vis) = 0 THEN None
    ELSE Some(StatsOf([i \in DOMAIN vis |-> vis[i].price]))

\* ------------------------------------------------------------ Layout Sizer
\* floor(perBar * 0.92) with perBar = available / count, for whole-pixel widths.
\* BarSize without the clamp to one pixel.
BarSizeUnclamped(width, count) ==
    IF width = None \/ width = Some(0) \/ count = 0 THEN None
    ELSE LET available == Max(0, width[1] - BarPadding)
         IN  Some((available * BarFillPercent) \div (count * 100))

BarSize(width, count) ==
    IF width = None \/ width = Some(0) \/ count = 0 THEN None
    ELSE LET available == Max(0, width[1] - BarPadding)
         IN  Some(Max(1, (available * BarFillPercent) \div (count * 100)))

\* ------------------------------------------------------------ proxy (route.ts)
CACHE_SECONDS == 60

\* Number(string) for the query strings of the model, in tenths; None is NaN.
\* Number trims white space and reads a decimal fraction.
NumberTable ==
    [s \in {"15", "60", "30", " 15", "60.0", "15.5", "abc",
            "0", "1", "3", "6", "7", "2.5", "-1"} |->
        CASE s = "15" -> Some(150)
          [] s = "60" -> Some(600)
          [] s = "30" -> Some(300)
          [] s = " 15" -> Some(150)
          [] s = "60.0" -> Some(600)
          [] s = "15.5" -> Some(155)
          [] s = "0" -> Some(0)
          [] s = "1" -> Some(10)
          [] s = "3" -> Some(30)
          [] s = "6" -> Some(60)
          [] s = "7" -> Some(70)
          [] s = "2.5" -> Some(25)
          [] s = "-1" -> Some(0 - 10)
          [] OTHER -> None]

NumberOf(s) == NumberTable[s]

\* String(number) for the whole numbers that pass validation.
StringOf(tenths) ==
    CASE tenths = 150 -> "15"
      [] tenths = 600 -> "60"
      [] tenths = 10 -> "1"
      [] tenths = 30 -> "3"
      [] tenths = 60 -> "6"
      [] tenths = 0 -> "0"
      [] tenths = 70 -> "7"
      [] tenths = 300 -> "30"
      [] OTHER -> "?"

IsInteger(parsed) == parsed # None /\ parsed[1] % 10 = 0

toUpperCase(s) ==
    CASE s = "fi" -> "FI"
      [] s = "se1" -> "SE1"
      [] OTHER -> s

toLowerCase(s) ==
    CASE s = "Today" -> "today"
      [] s = "TodayAndDayForward" -> "todayanddayforward"
      [] OTHER -> s

TYPE_ALIASES(key) ==
    CASE key = "today" -> Some("today")
      [] key \in {"dayforward", "day-forward", "tomorrow"} -> Some("dayForward")
      [] key \in {"todayanddayforward", "today-dayforward", "today-and-dayforward"} ->
            Some("todayAndDayForward")
      [] key \in {"justnow", "just-now", "now"} -> Some("justNow")
      [] OTHER -> None

ENDPOINTS(type) ==
    CASE type = "today" -> "/Today"
      [] type = "dayForward" -> "/DayForward"
      [] type = "todayAndDayForward" -> "/TodayAndDayForward"
      [] OTHER -> "/JustNow"

\* A query parameter that if (value) takes as given: neither null nor "".
Given(value) == value # None /\ value # Some("")

resolveType(value) ==
    IF ~Given(value) THEN Some("today") ELSE TYPE_ALIASES(toLowerCase(value[1]))

Json(status) ==
    [status |-> status, body |-> "error", contentType |-> "application/json",
     cacheControl |-> None]

\* ![15, 60].includes(parsed), with 15 and 60 in tenths.
PriceResolutionRejected(parsed) == parsed \notin {Some(150), Some(600)}

\* The range test without its upper limit.
LookForwardRejectedNoUpper(parsed) ==
    ~IsInteger(parsed) \/ parsed[1] < 10

\* !Number.isInteger(parsed) || parsed < 1 || parsed > 6, in tenths.
LookForwardRejected(parsed) ==
    ~IsInteger(parsed) \/ parsed[1] < 10 \/ parsed[1] > 60

\* What a boolean flag contributes to the upstream query.
FlagParam(value) ==
    IF value = Some("true") \/ value = Some("false") THEN value ELSE None

RegionParam(value) == IF Given(value) THEN Some(toUpperCase(value[1])) ELSE None

\* GET up to the fetch: the 400 response it returns, or the upstream request
\* it is about to make.
Validate(req) ==
    IF resolveType(req.type) = None
    THEN [response |-> Some(Json(400)), upstream |-> None]
    ELSE IF Given(req.priceResolution)
            /\ PriceResolutionRejected(NumberOf(req.priceResolution[1]))
    THEN [response |-> Some(Json(400)), upstream |-> None]
    ELSE IF Given(req.lookForwardHours)
            /\ LookForwardRejected(NumberOf(req.lookForwardHours[1]))
    THEN [response |-> Some(Json(400)), upstream |-> None]
    ELSE [response |-> None,
          upstream |-> Some(
              [path |-> ENDPOINTS(resolveType(req.type)[1]),
               region |-> RegionParam(req.region),
               priceResolution |->
                   IF Given(req.priceResolution)
                   THEN Some(StringOf(NumberOf(req.priceResolution[1])[1]))
                   ELSE None,
               lookForwardHours |->
                   IF Given(req.lookForwardHours)
                   THEN Some(StringOf(NumberOf(req.lookForwardHours[1])[1]))
                   ELSE None,
               HomeAssistant |-> FlagParam(req.HomeAssistant),
               HomeAssistant15Min |-> FlagParam(req.HomeAssistant15Min)])]

Optional(S) == {None} \cup {Some(x) : x \in S}

\* The requests the proxy is sent.
Requests ==
    [type : Optional({"TodayAndDayForward", "bogus"}),
     region : Optional({"", "fi", "SE1"}),
     priceResolution : Optional({"", " 15", "60.0", "30", "15.5"}),
     lookForwardHours : Optional({"1", "6", "0", "7", "2.5", "abc"}),
     HomeAssistant : Optional({"true", "false", "yes"}),
     HomeAssistant15Min : Optional({"true", "TRUE"})]

\* What the upstream API may answer.
UpstreamStatuses == {200, 204, 404, 500}
UpstreamContentTypes == Optional({"application/json", "text/plain"})
UpstreamBodies == {"", "[]", "no data"}

\* The statuses a Response may not be constructed with when it is given a
\* body: new NextResponse(body, { status }) throws for them, the empty string
\* that response.text() returns being a body too.
NullBodyStatuses == {101, 103, 204, 205, 304}

\* response.ok
Ok(status) == status >= 200 /\ status <= 299

\* What upstream answered: a response, or the fetch (or the read of the
\* body) threw.
Reply(status, contentType, body) ==
    [threw |-> FALSE, status |-> status, contentType |-> contentType, body |-> body]
Threw == [threw |-> TRUE, status |-> 0, contentType |-> None, body |-> ""]

PassThroughAlwaysCached(status, contentType, body) ==
    IF status \in NullBodyStatuses
    THEN Json(502)
    ELSE [status |-> status,
          body |-> body,
          contentType |->
              IF contentType = None THEN "application/json" ELSE contentType[1],
          cacheControl |-> Some([public |-> TRUE, sMaxAge |-> CACHE_SECONDS])]

\* The try block of GET from the upstream response on; a throw of the
\* Response constructor lands in the same catch as a throw of the fetch.
PassThrough(status, contentType, body) ==
    IF status \in NullBodyStatuses
    THEN Json(502)
    ELSE [status |-> status,
          body |-> body,
          contentType |->
              IF contentType = None THEN "application/json" ELSE contentType[1],
          cacheControl |->
              IF Ok(status)
              THEN Some([public |-> TRUE, sMaxAge |-> CACHE_SECONDS])
              ELSE None]

\* ------------------------------------------------------------ inputs
Iso(t) == [kind |-> "iso", t |-> t]
Garbage == [kind |-> "garbage", t |-> 0]
Empty == [kind |-> "empty", t |-> 0]
Absent == [kind |-> "absent", t |-> 0]

Record(dt, noTax, withTax) ==
    [DateTime |-> dt, PriceNoTax |-> noTax, PriceWithTax |-> withTax]

At(day, hour, minute, second) ==
    day * MsPerDay + hour * MsPerHour + minute * MsPerMinute + second * 1000

\* Records the exhaustive sequences are drawn from: a duplicate timestamp,
\* a sub-minute gap, a negative price, a day change and a null in either
\* price field.
RecordPool ==
    { Record(Iso(At(0, 22, 0, 0)), Some(8), Some(10)),
      Record(Iso(At(0, 22, 0, 20)), Some(0 - 1), None),
      Record(Iso(At(1, 0, 30, 0)), None, Some(2)) }

RECURSIVE SeqsUpTo(_, _)
SeqsUpTo(S, n) ==
    IF n = 0 THEN {<<>>}
    ELSE LET shorter == SeqsUpTo(S, n - 1)
         IN  shorter \cup {Append(s, x) : s \in shorter, x \in S}

\* n records every stepMs from start, the i-th (from 0) priced Price(i) with
\* tax and one less without.
Series(start, n, stepMs, Price(_)) ==
    [k \in 1..n |-> Record(Iso(start + (k - 1) * stepMs),
                           Some(Price(k - 1) - 1), Some(Price(k - 1)))]

Scattered(i) == ((7 * i) % 24) + 1
Tied(i) == i % 5
Falling(i) == 60 - i

\* The record at the given minutes after 08:00 of day 0.
Minute(m, price) == Record(Iso(At(0, 8, m, 0)), Some(price), Some(price))

Scenarios ==
    { <<Record(Garbage, Some(6), Some(7))>>,
      <<Record(Iso(At(0, 22, 0, 0)), Some(8), Some(10)),
        Record(Iso(At(0, 22, 0, 0)), Some(3), Some(4)),
        Record(Iso(At(0, 23, 0, 0)), Some(5), Some(0 - 6))>>,
      <<Minute(30, 2), Record(Garbage, Some(6), Some(7)), Minute(0, 5)>>,
      <<Record(Absent, Some(6), Some(7)), Minute(0, 5)>>,
      <<Minute(60, 5), Record(Empty, Some(6), Some(7)), Minute(0, 5)>>,
      <<Minute(0, 1), Minute(0, 1), Minute(0, 1)>>,
      Series(0, 24, MsPerHour, Scattered),
      Series(0, 48, MsPerHour, Scattered),
      Series(0, 24, MsPerHour, Tied),
      Series(At(0, 20, 0, 0), 14, MsPerHour, Falling),
      Series(At(0, 18, 0, 0), 30, 15 * MsPerMinute, Scattered),
      Series(At(0, 0, 0, 0), 14, 90 * MsPerMinute, Scattered),
      <<Minute(0, 3), Minute(55, 1), Minute(115, 2), Minute(180, 4)>>,
      <<Minute(120, 3), Minute(0, 1), Minute(55, 2)>>,
      <<Minute(120, 1), Minute(120, 9), Minute(180, 2), Minute(240, 3),
        Minute(300, 4), Minute(360, 5), Minute(420, 6)>> }

\* What the page may hand the chart after the mount, and what the chart may
\* be mounted with.
DataPool == SeqsUpTo(RecordPool, MaxLen)
MountPool == DataPool \cup Scenarios

\* Instants Date.now() is read at.
ClockInstants == { At(0, 9, 0, 0), At(0, 23, 0, 0), At(1, 1, 45, 0) }

\* Widths the ResizeObserver reports.
Widths == {0, 10, 1000}

\* ------------------------------------------------------------ the page
\* The regions and resolutions the user picks from.
Regions == {"FI", "SE1"}
Resolutions == {"15", "60"}

\* The two parameters of the query string.
buildSpotQuery(r, p) == [region |-> r, priceResolution |-> p]

\* What fetchSpot hands back as payload: a JSON array, a JSON object with a
\* DateTime, a JSON object with an error field, any other JSON value, or the
\* string of response.text().
JsonArray(items) == [kind |-> "array", items |-> items, text |-> ""]
JsonRecord(item) == [kind |-> "record", items |-> <<item>>, text |-> ""]
JsonError(message) == [kind |-> "error", items |-> <<>>, text |-> message]
JsonOther == [kind |-> "other", items |-> <<>>, text |-> ""]
Text(string) == [kind |-> "text", items |-> <<>>, text |-> string]

normalizePayload(payload) ==
    IF payload.kind = "array" THEN payload.items
    ELSE IF payload.kind = "record" THEN <<payload.items[1]>>
    ELSE <<>>

\* Strings of white space only.
Blank == {"", " "}
trim(string) == IF string \in Blank THEN "" ELSE string

getErrorMessage(payload, fallback) ==
    IF payload.kind = "error" /\ trim(payload.text) # ""
    THEN payload.text
    ELSE IF payload.kind = "text" /\ trim(payload.text) # ""
    THEN payload.text
    ELSE fallback

\* What the await of fetchSpot yields: the response with its payload, or a
\* throw, of an AbortError or of anything else (the network failed, the body
\* is no JSON).
Received(status, statusText, payload) ==
    [threw |-> "none", status |-> status, statusText |-> statusText,
     payload |-> payload]
AbortError ==
    [threw |-> "abort", status |-> 0, statusText |-> "", payload |-> JsonOther]
OtherError ==
    [threw |-> "error", status |-> 0, statusText |-> "", payload |-> JsonOther]

\* Responses of /api/spot: isJson is whether the content type names
\* application/json, body what the body holds (a text where JSON is named
\* does not parse).
Response(status, statusText, isJson, body) ==
    [status |-> status, statusText |-> statusText, isJson |-> isJson,
     body |-> body]

PageResponses ==
    { Response(200, "OK", TRUE,
               JsonArray(<<Record(Iso(At(0, 22, 0, 0)), Some(8), Some(10))>>)),
      Response(200, "", TRUE,
               JsonRecord(Record(Iso(At(1, 0, 30, 0)), None, Some(2)))),
      Response(200, "OK", FALSE, Text("no data")),
      Response(200, "OK", TRUE, Text("no data")),
      Response(404, "Not Found", TRUE, JsonError("Invalid type.")),
      Response(404, "", FALSE, Text("")),
      Response(500, "", TRUE, JsonOther),
      Response(500, "Internal Server Error", FALSE, Text(" ")),
      Response(502, "", TRUE, JsonError("Upstream request failed.")) }

\* fetchSpot once the response is there: the payload is read as JSON or as
\* text.
fetchSpot(response) ==
    IF response.isJson /\ response.body.kind = "text"
    THEN OtherError
    ELSE Received(response.status, response.statusText, response.body)

\* One call of loadPrices: its query, its signal, the await it stands at
\* ("primary", "fallback") or "done", the feeds it has requested, and its
\* locals primary and fallback once their await has settled.
NewLoad(query) ==
    [query |-> query, aborted |-> FALSE, pc |-> "primary",
     requests |-> <<"todayAndDayForward">>, primary |-> None, fallback |-> None]

Awaited(load) == IF load.pc = "primary" THEN load.primary ELSE load.fallback

InFlight(load) == load.pc # "done" /\ Awaited(load) = None

Settled(load, outcome) ==
    IF load.pc = "primary"
    THEN [load EXCEPT !.primary = Some(outcome)]
    ELSE [load EXCEPT !.fallback = Some(outcome)]

\* ------------------------------------------------------------ state
VARIABLES
    data, useTax, showPast,          \* props of ChartView
    containerWidth,                  \* useState
    observing,                       \* the ResizeObserver watches the chart's node
    clock,                           \* what Date.now() returns
    nowTimestamp,                    \* Date.now() read by the last render
    chartData, stepMinutes, pointsPerHour, coloredData,
    filterNow,                       \* Date.now() read when visibleData was last computed
    visibleData, axisTicks, dayChangeMarkers, nowLineTimestamp, stats, barSize,
    pxPhase,                         \* the proxy's GET: "idle", "fetching" or "done"
    pxRequest,                       \* the query of the request being handled
    pxUpstream,                      \* the upstream request it made, if any
    pxReply,                         \* what upstream answered, if it has
    pxResponse,                      \* the response it returned, if any
    region, priceResolution,         \* useState of Home; data is the chart's prop
    isLoading, error,
    loads,                           \* the calls of loadPrices, oldest first
    continuations                    \* loads whose await has settled, in the
                                     \* order their continuations will run

props == <<data, useTax, showPast>>
upstreamMemos == <<chartData, stepMinutes, pointsPerHour, coloredData>>
viewMemos ==
    <<filterNow, visibleData, axisTicks, dayChangeMarkers, nowLineTimestamp, stats>>
chartVars ==
    <<data, useTax, showPast, containerWidth, observing, clock, nowTimestamp,
      chartData, stepMinutes, pointsPerHour, coloredData,
      filterNow, visibleData, axisTicks, dayChangeMarkers, nowLineTimestamp,
      stats, barSize>>
proxyVars == <<pxPhase, pxRequest, pxUpstream, pxReply, pxResponse>>
pageVars == <<region, priceResolution, isLoading, error, loads, continuations>>
vars == <<chartVars, proxyVars, pageVars>>

\* The variables outside the chart, and outside the proxy.
beyondChart == <<proxyVars, pageVars>>
beyondProxy == <<chartVars, pageVars>>

ProxyIdle ==
    /\ pxPhase = "idle"
    /\ pxRequest = None
    /\ pxUpstream = None
    /\ pxReply = None
    /\ pxResponse = None

\* Home before its effect has run.
PageIdle ==
    /\ region = "FI"
    /\ priceResolution = "60"
    /\ isLoading = FALSE
    /\ error = None
    /\ loads = <<>>
    /\ continuations = <<>>

stepMsOf(minutes) == minutes * 60 * 1000

\* The mount: first render, then the effect that starts observing the chart's
\* node, which exists only when there is something to show.  The effect runs
\* once, so a node rendered later is never observed, and a node that a render
\* removes is not observed again.
Mount(pool, taxes, pasts, instants) ==
    /\ data \in pool
    /\ useTax \in taxes
    /\ showPast \in pasts
    /\ containerWidth = None
    /\ clock \in instants
    /\ nowTimestamp = clock
    /\ filterNow = clock
    /\ chartData = ChartData(data, useTax)
    /\ stepMinutes = StepMinutes(chartData)
    /\ pointsPerHour = PointsPerHour(stepMinutes)
    /\ coloredData = ColoredData(chartData, pointsPerHour)
    /\ visibleData = VisibleData(coloredData, showPast, stepMsOf(stepMinutes), clock)
    /\ axisTicks = AxisTicks(visibleData)
    /\ dayChangeMarkers = DayChangeMarkers(visibleData, stepMsOf(stepMinutes))
    /\ nowLineTimestamp = NowLineTimestamp(visibleData, clock)
    /\ stats = Stats(visibleData)
    /\ barSize = BarSize(None, Len(visibleData))
    /\ observing = (Len(visibleData) > 0)

Init ==
    /\ Mount(MountPool, BOOLEAN, BOOLEAN, ClockInstants)
    /\ ProxyIdle
    /\ PageIdle

\* A render in which visibleData's dependencies changed: it and every memo
\* that depends on it are recomputed, reading Date.now() afresh.
RenderView(colored, sp, step, width) ==
    /\ nowTimestamp' = clock
    /\ filterNow' = clock
    /\ visibleData' = VisibleData(colored, sp, stepMsOf(step), clock)
    /\ axisTicks' = AxisTicks(visibleData')
    /\ dayChangeMarkers' = DayChangeMarkers(visibleData', stepMsOf(step))
    /\ nowLineTimestamp' = NowLineTimestamp(visibleData', clock)
    /\ stats' = Stats(visibleData')
    /\ barSize' = BarSize(width, Len(visibleData'))
    /\ observing' = (observing /\ Len(visibleData') > 0)

\* A render in which chartData's dependencies changed.
RenderAll(d, tax, sp) ==
    /\ chartData' = ChartData(d, tax)
    /\ stepMinutes' = StepMinutes(chartData')
    /\ pointsPerHour' = PointsPerHour(stepMinutes')
    /\ coloredData' = ColoredData(chartData', pointsPerHour')
    /\ RenderView(coloredData', sp, stepMinutes', containerWidth)

\* The page hands the chart a new data array.
ReceiveData(d) ==
    /\ data' = d
    /\ RenderAll(d, useTax, showPast)
    /\ UNCHANGED <<useTax, showPast, containerWidth, clock>>
    /\ UNCHANGED beyondChart

\* The page switches the tax mode.
SetUseTax(tax) ==
    /\ tax # useTax
    /\ useTax' = tax
    /\ RenderAll(data, tax, showPast)
    /\ UNCHANGED <<data, showPast, containerWidth, clock>>
    /\ UNCHANGED beyondChart

\* The page switches the show-past checkbox.
SetShowPast(sp) ==
    /\ sp # showPast
    /\ showPast' = sp
    /\ RenderView(coloredData, sp, stepMinutes, containerWidth)
    /\ UNCHANGED <<data, useTax, containerWidth, clock, upstreamMemos>>
    /\ UNCHANGED beyondChart

\* The ResizeObserver callback: setContainerWidth and the render it causes,
\* in which only barSize has a changed dependency.
Resize(width) ==
    /\ observing
    /\ containerWidth # Some(width)
    /\ containerWidth' = Some(width)
    /\ nowTimestamp' = clock
    /\ barSize' = BarSize(Some(width), Len(visibleData))
    /\ UNCHANGED <<props, observing, clock, upstreamMemos, viewMemos>>
    /\ UNCHANGED beyondChart

\* The page re-renders with the same props (its loading flag or error
\* changed): no memo has a changed dependency.
Rerender ==
    /\ nowTimestamp # clock
    /\ nowTimestamp' = clock
    /\ UNCHANGED <<props, containerWidth, observing, clock, upstreamMemos,
                   viewMemos, barSize>>
    /\ UNCHANGED beyondChart

\* Time passes.
Tick(instant) ==
    /\ instant > clock
    /\ clock' = instant
    /\ UNCHANGED <<props, containerWidth, observing, nowTimestamp,
                   upstreamMemos, viewMemos, barSize>>
    /\ UNCHANGED beyondChart

Next ==
    \/ \E d \in DataPool : ReceiveData(d)
    \/ \E tax \in BOOLEAN : SetUseTax(tax)
    \/ \E sp \in BOOLEAN : SetShowPast(sp)
    \/ \E width \in Widths : Resize(width)
    \/ Rerender
    \/ \E instant \in ClockInstants : Tick(instant)

Spec == Init /\ [][Next]_vars

\* ------------------------------------------------------------ the proxy's GET
\* The page as it mounts the chart: no data, with tax, past hidden.
ChartAtRest == Mount({<<>>}, {TRUE}, {FALSE}, {At(0, 9, 0, 0)})

ProxyInit ==
    /\ ChartAtRest
    /\ ProxyIdle
    /\ PageIdle

\* GET from its start to the 400 it returns or to the fetch it awaits.
Get(req) ==
    /\ pxPhase = "idle"
    /\ pxRequest' = Some(req)
    /\ pxUpstream' = Validate(req).upstream
    /\ pxResponse' = Validate(req).response
    /\ pxPhase' = IF Validate(req).response = None THEN "fetching" ELSE "done"
    /\ UNCHANGED <<pxReply, beyondProxy>>

\* GET from the upstream response on.
UpstreamResponds(status, contentType, body) ==
    /\ pxPhase = "fetching"
    /\ status \in NullBodyStatuses => body = ""
    /\ pxReply' = Some(Reply(status, contentType, body))
    /\ pxResponse' = Some(PassThrough(status, contentType, body))
    /\ pxPhase' = "done"
    /\ UNCHANGED <<pxRequest, pxUpstream, beyondProxy>>

\* The fetch, or reading its body, throws.
UpstreamFails ==
    /\ pxPhase = "fetching"
    /\ pxReply' = Some(Threw)
    /\ pxResponse' = Some(Json(502))
    /\ pxPhase' = "done"
    /\ UNCHANGED <<pxRequest, pxUpstream, beyondProxy>>

\* The response has been sent; the handler takes the next request.
Finish ==
    /\ pxPhase = "done"
    /\ pxPhase' = "idle"
    /\ pxRequest' = None
    /\ pxUpstream' = None
    /\ pxReply' = None
    /\ pxResponse' = None
    /\ UNCHANGED beyondProxy

ProxyNext ==
    \/ \E req \in Requests : Get(req)
    \/ Finish
    \/ \E status \in UpstreamStatuses, contentType \in UpstreamContentTypes,
          body \in UpstreamBodies : UpstreamResponds(status, contentType, body)
    \/ UpstreamFails

SpecProxy == ProxyInit /\ [][ProxyNext]_vars

\* ------------------------------------------------------------ the page's loads
PageInit ==
    /\ ChartAtRest
    /\ ProxyIdle
    /\ PageIdle

\* loadPrices up to its first await, for the query of this render.
StartLoad(earlier, query) ==
    /\ isLoading' = TRUE
    /\ error' = None
    /\ loads' = Append(earlier, NewLoad(query))

\* A render of Home that hands the chart the props it had.
SameProps ==
    /\ nowTimestamp' = clock
    /\ UNCHANGED <<props, containerWidth, observing, clock, upstreamMemos,
                   viewMemos, barSize>>

\* setData and the render of the chart with the new array.
SetData(d) ==
    /\ data' = d
    /\ RenderAll(d, useTax, showPast)
    /\ UNCHANGED <<useTax, showPast, containerWidth, clock>>

\* The effect after the first render.
MountEffect ==
    /\ loads = <<>>
    /\ StartLoad(loads, buildSpotQuery(region, priceResolution))
    /\ SameProps
    /\ UNCHANGED <<region, priceResolution, continuations, proxyVars>>

\* controller.abort() of the effect's cleanup: the signal of the latest load
\* is aborted, and an await of it that is in flight throws an AbortError.
Abort(all) ==
    LET last == Len(all)
    IN  IF InFlight(all[last])
        THEN [all EXCEPT ![last] = [Settled(@, AbortError) EXCEPT !.aborted = TRUE]]
        ELSE [all EXCEPT ![last].aborted = TRUE]

\* The query changed: the render, the cleanup of the effect and the effect.
Reload(r, p) ==
    /\ loads # <<>>
    /\ Len(loads) < MaxLoads
    /\ continuations' =
          IF InFlight(loads[Len(loads)])
          THEN Append(continuations, Len(loads))
          ELSE continuations
    /\ StartLoad(Abort(loads), buildSpotQuery(r, p))
    /\ SameProps
    /\ UNCHANGED proxyVars

\* The user picks another region.
SetRegion(r) ==
    /\ r # region
    /\ region' = r
    /\ Reload(r, priceResolution)
    /\ UNCHANGED priceResolution

\* The user picks another resolution.
SetPriceResolution(p) ==
    /\ p # priceResolution
    /\ priceResolution' = p
    /\ Reload(region, p)
    /\ UNCHANGED region

\* The fetch of load i is answered and its body read.
Responds(i, response) ==
    /\ InFlight(loads[i])
    /\ loads' = [loads EXCEPT ![i] = Settled(@, fetchSpot(response))]
    /\ continuations' = Append(continuations, i)
    /\ UNCHANGED <<region, priceResolution, isLoading, error, chartVars, proxyVars>>

\* The fetch of load i fails for another reason than an abort.
FetchFails(i) ==
    /\ InFlight(loads[i])
    /\ loads' = [loads EXCEPT ![i] = Settled(@, OtherError)]
    /\ continuations' = Append(continuations, i)
    /\ UNCHANGED <<region, priceResolution, isLoading, error, chartVars, proxyVars>>

\* The finally block.
Finally(load) == isLoading' = IF load.aborted THEN isLoading ELSE FALSE

Done(i) == loads' = [loads EXCEPT ![i].pc = "done"]

\* catch (err).
Catch(i, load, outcome) ==
    /\ IF outcome.threw = "abort"
       THEN UNCHANGED error /\ SameProps
       ELSE error' = Some("Failed to load prices.") /\ SetData(<<>>)
    /\ Done(i)
    /\ Finally(load)

\* The failure branches.
Fails(i, load, outcome) ==
    /\ error' = Some(getErrorMessage(outcome.payload, outcome.statusText))
    /\ SetData(<<>>)
    /\ Done(i)
    /\ Finally(load)

\* The success branches.
Succeeds(i, load, outcome) ==
    /\ SetData(normalizePayload(outcome.payload))
    /\ UNCHANGED error
    /\ Done(i)
    /\ Finally(load)

\* The combined feed answered 404: fetchSpot("today"), whose fetch throws at
\* once when the signal is already aborted.
FallsBack(i, load) ==
    /\ IF load.aborted
       THEN loads' = [loads EXCEPT ![i].requests = Append(@, "today"),
                                   ![i].fallback = Some(AbortError),
                                   ![i].pc = "done"]
       ELSE loads' = [loads EXCEPT ![i].requests = Append(@, "today"),
                                   ![i].pc = "fallback"]
    /\ SameProps
    /\ UNCHANGED <<isLoading, error>>

\* loadPrices from the await of load i on, to its next await or its end.
Resume(i, load, outcome) ==
    IF outcome.threw # "none" THEN Catch(i, load, outcome)
    ELSE IF Ok(outcome.status) THEN Succeeds(i, load, outcome)
    ELSE IF load.pc = "primary" /\ outcome.status = 404 THEN FallsBack(i, load)
    ELSE Fails(i, load, outcome)

\* The continuation that settled first runs.
Continue ==
    /\ continuations # <<>>
    /\ continuations' = Tail(continuations)
    /\ Resume(Head(continuations), loads[Head(continuations)],
              Awaited(loads[Head(continuations)])[1])
    /\ UNCHANGED <<region, priceResolution, proxyVars>>

PageNext ==
    \/ MountEffect
    \/ \E r \in Regions : SetRegion(r)
    \/ \E p \in Resolutions : SetPriceResolution(p)
    \/ \E i \in DOMAIN loads, response \in PageResponses : Responds(i, response)
    \/ \E i \in DOMAIN loads : FetchFails(i)
    \/ Continue

SpecPage == PageInit /\ [][PageNext]_vars

\* ============================================================ claims
stepMs == stepMsOf(stepMinutes)

\* ------------------------------------------------------------ C1
\* 0-based rank of point i in its day's stable ascending-price order.
StableRank(cd, i) ==
    Cardinality({j \in DOMAIN cd :
        /\ cd[j].dayKey = cd[i].dayKey
        /\ \/ cd[j].price < cd[i].price
           \/ cd[j].price = cd[i].price /\ j < i})

DayCount(cd, day) == Cardinality({j \in DOMAIN cd : cd[j].dayKey = day})

TagCount(cd, day, tag) ==
    Cardinality({j \in DOMAIN cd : cd[j].dayKey = day /\ cd[j].fill = tag})

TagOfRank(rank, n, pph) ==
    IF rank < Min(n, GreenHours * pph) THEN "low"
    ELSE IF rank < Min(n, YellowHours * pph) THEN "mid"
    ELSE "high"

\* C1: every point is tagged from its rank in its day's stable ascending-price
\* order; so each day has exactly greenLimit low points, yellowLimit -
\* greenLimit mid points, the rest high, and no low point is pricier than a
\* mid or high point of the same day.
C1_TaggedByDayRank ==
    /\ \A i \in DOMAIN coloredData :
          coloredData[i].fill =
              TagOfRank(StableRank(coloredData, i),
                        DayCount(coloredData, coloredData[i].dayKey),
                        pointsPerHour)
    /\ \A i \in DOMAIN coloredData :
          LET day == coloredData[i].dayKey
              n == DayCount(coloredData, day)
              green == Min(n, GreenHours * pointsPerHour)
              yellow == Min(n, YellowHours * pointsPerHour)
          IN  /\ TagCount(coloredData, day, "low") = green
              /\ TagCount(coloredData, day, "mid") = yellow - green
              /\ TagCount(coloredData, day, "high") = n - yellow
    /\ \A i, j \in DOMAIN coloredData :
          /\ coloredData[i].dayKey = coloredData[j].dayKey
          /\ coloredData[i].fill = "low"
          /\ coloredData[j].fill # "low"
          => coloredData[i].price <= coloredData[j].price

\* ------------------------------------------------------------ C2
KeptIndexes(colored, now, ms) ==
    {i \in DOMAIN colored : colored[i].timestamp + ms > now}

\* `out` is `colored` restricted to `kept`, in order.
IsRestriction(out, colored, kept) ==
    /\ Len(out) = Cardinality(kept)
    /\ \A i \in kept : out[Cardinality({j \in kept : j <= i})] = colored[i]

\* C2: with showPast false the visible points are exactly the points with
\* timestamp + stepMs > now, in input order; with showPast true they are the
\* input unchanged.
C2_VisibilityFilter ==
    /\ showPast => visibleData = coloredData
    /\ ~showPast =>
          /\ \A k \in DOMAIN visibleData :
                ~(visibleData[k].timestamp + stepMs <= filterNow)
          /\ IsRestriction(visibleData, coloredData,
                           KeptIndexes(coloredData, filterNow, stepMs))

\* A point whose interval ended exactly now is dropped, a later one kept.
C2_Witness ==
    /\ ~showPast
    /\ Len(visibleData) > 0
    /\ \E i \in DOMAIN coloredData : coloredData[i].timestamp + stepMs = filterNow

\* ------------------------------------------------------------ C3
Selected(item, tax) == IF tax THEN item.PriceWithTax ELSE item.PriceNoTax

Usable(item, tax) == item.DateTime.kind = "iso" /\ Selected(item, tax) # None

\* C3: chartData is sorted non-decreasing by timestamp and holds exactly one
\* point (price = selected field * multiplier) per record with a parseable
\* timestamp and a non-null selected price, none for any other record.
C3_Normalizer ==
    /\ \A i \in DOMAIN chartData :
          i > 1 => chartData[i - 1].timestamp <= chartData[i].timestamp
    /\ Len(chartData) = Cardinality({k \in DOMAIN data : Usable(data[k], useTax)})
    /\ \A k \in DOMAIN data :
          Usable(data[k], useTax) =>
              Cardinality({i \in DOMAIN chartData :
                  /\ chartData[i].timestamp = data[k].DateTime.t
                  /\ chartData[i].price = Selected(data[k], useTax)[1] * valueMultiplier})
              = Cardinality({j \in DOMAIN data :
                  /\ Usable(data[j], useTax)
                  /\ data[j].DateTime.t = data[k].DateTime.t
                  /\ Selected(data[j], useTax) = Selected(data[k], useTax)})

\* Records arrive out of order, one of them unusable, one priced zero.
C3_Witness ==
    /\ \E k \in DOMAIN data : ~Usable(data[k], useTax)
    /\ \E j, k \in DOMAIN data :
          /\ j < k
          /\ Usable(data[j], useTax)
          /\ Usable(data[k], useTax)
          /\ data[j].DateTime.t > data[k].DateTime.t
    /\ Len(chartData) >= 2

C3_ZeroPriceKept ==
    \E i \in DOMAIN chartData : chartData[i].price = 0

\* ------------------------------------------------------------ C4
PositiveDeltaIndexes(cd) ==
    {i \in 1..(Len(cd) - 1) : cd[i + 1].timestamp - cd[i].timestamp > 0}

Delta(cd, i) == cd[i + 1].timestamp - cd[i].timestamp

\* m is the element at 0-based position `pos` of the sorted deltas.
IsSortedElement(cd, idx, m, pos) ==
    /\ \E i \in idx : Delta(cd, i) = m
    /\ Cardinality({i \in idx : Delta(cd, i) < m}) <= pos
    /\ Cardinality({i \in idx : Delta(cd, i) <= m}) > pos

\* r is m / 60000 rounded to the nearest whole minute (halves up).
IsRounded(r, m) ==
    /\ 2 * r * MsPerMinute <= 2 * m + MsPerMinute
    /\ 2 * (r + 1) * MsPerMinute > 2 * m + MsPerMinute

\* C4 as stated: 60 with fewer than 2 points or no positive delta, else the
\* median of the positive deltas, the lower-middle one when their number is
\* even, rounded to the nearest minute.
C4_LowerMedian ==
    LET idx == PositiveDeltaIndexes(chartData)
        k == Cardinality(idx)
    IN  IF Len(chartData) < 2 \/ k = 0 THEN stepMinutes = DefaultStepMinutes
        ELSE \E i \in idx :
                /\ IsSortedElement(chartData, idx, Delta(chartData, i), (k - 1) \div 2)
                /\ IsRounded(stepMinutes, Delta(chartData, i))

\* C4 amended: 60 with fewer than 2 points, with no positive delta, or when
\* the median rounds to 0 minutes; else the element at index floor(k / 2) of
\* the k sorted positive deltas (the upper-middle one when k is even),
\* rounded to the nearest minute.
C4_UpperMedian ==
    LET idx == PositiveDeltaIndexes(chartData)
        k == Cardinality(idx)
    IN  IF Len(chartData) < 2 \/ k = 0 THEN stepMinutes = DefaultStepMinutes
        ELSE \E i \in idx :
                /\ IsSortedElement(chartData, idx, Delta(chartData, i), k \div 2)
                /\ IF IsRounded(0, Delta(chartData, i))
                   THEN stepMinutes = DefaultStepMinutes
                   ELSE IsRounded(stepMinutes, Delta(chartData, i))

\* Two positive deltas, 55 and 65 minutes: the result is 65.
C4_Witness ==
    /\ Len(chartData) = 3
    /\ Delta(chartData, 1) = 55 * MsPerMinute
    /\ Delta(chartData, 2) = 65 * MsPerMinute
    /\ stepMinutes = 65

\* Deltas of 55, 60 and 65 minutes give 60; a 20-second delta gives 60.
C4_JitterWitness ==
    /\ Len(chartData) = 4
    /\ {Delta(chartData, i) : i \in 1..3} =
          {55 * MsPerMinute, 60 * MsPerMinute, 65 * MsPerMinute}
    /\ stepMinutes = 60

\* ------------------------------------------------------------ C5
\* C5: a non-empty visible sequence yields a non-empty, strictly increasing
\* sequence of ticks.
C5_TicksNonEmpty ==
    Len(visibleData) > 0 =>
        /\ axisTicks # None
        /\ Len(axisTicks[1]) > 0
        /\ \A i \in DOMAIN axisTicks[1] :
              i > 1 => axisTicks[1][i - 1] < axisTicks[1][i]

\* ------------------------------------------------------------ C6
DayChanges(vis) == {i \in 2..Len(vis) : vis[i].dayKey # vis[i - 1].dayKey}

MarkersMatch(markers, vis, changes, ms) ==
    /\ Len(markers) = Cardinality(changes)
    /\ \A i \in changes :
          2 * markers[Cardinality({j \in changes : j <= i})].x
              = 2 * vis[i].timestamp - ms

\* C6: one marker per index i >= 1 whose day key differs from that of point
\* i-1, at timestamp(i) - stepMs/2, in order; their number is the number of
\* distinct day keys of the visible set minus one.
C6_DayChangeMarkers ==
    /\ MarkersMatch(dayChangeMarkers, visibleData, DayChanges(visibleData), stepMs)
    /\ Len(visibleData) > 0 =>
          Len(dayChangeMarkers) + 1
              = Cardinality({visibleData[i].dayKey : i \in DOMAIN visibleData})
    /\ Len(visibleData) = 0 => dayChangeMarkers = <<>>

\* Two days of 24 hourly points: one marker, half an hour before day two.
C6_Witness ==
    /\ Len(visibleData) = 48
    /\ stepMinutes = 60
    /\ Len(dayChangeMarkers) = 1
    /\ dayChangeMarkers[1].x = MsPerDay - 30 * MsPerMinute
    /\ visibleData[25].timestamp = MsPerDay

\* ------------------------------------------------------------ C7
\* C7: the now marker is present exactly when the visible set is non-empty
\* and first <= now <= last, and then equals now.
C7_NowMarker ==
    /\ Len(nowLineTimestamp) <= 1
    /\ nowLineTimestamp # None <=>
          /\ Len(visibleData) > 0
          /\ visibleData[1].timestamp <= filterNow
          /\ filterNow <= visibleData[Len(visibleData)].timestamp
    /\ nowLineTimestamp # None => nowLineTimestamp[1] = filterNow

\* now is the timestamp of the last visible point, and the marker is shown.
C7_Witness ==
    /\ Len(visibleData) > 0
    /\ visibleData[Len(visibleData)].timestamp = filterNow
    /\ nowLineTimestamp = Some(filterNow)

\* ------------------------------------------------------------ C8
\* C8: no bar width with a zero or unknown container width or no visible
\* point; else max(1, floor(((width - 16) / count) * 0.92)), an integer >= 1,
\* which is 37 for width 1000 and 24 points.
C8_BarSize ==
    LET count == Len(visibleData)
    IN  IF containerWidth = None \/ containerWidth = Some(0) \/ count = 0
        THEN barSize = None
        ELSE /\ barSize # None
             /\ barSize[1] >= 1
             /\ barSize[1] > 1 =>
                   barSize[1] * 100 * count <= (containerWidth[1] - 16) * 92
             /\ (barSize[1] + 1) * 100 * count > (containerWidth[1] - 16) * 92
             /\ containerWidth[1] = 1000 /\ count = 24 => barSize[1] = 37

C8_Witness ==
    /\ containerWidth = Some(1000)
    /\ Len(visibleData) = 24
    /\ barSize = Some(37)

\* A container narrower than the padding still gets a bar of one pixel.
C8_NarrowWitness ==
    /\ containerWidth = Some(10)
    /\ barSize = Some(1)

\* ------------------------------------------------------------ C9
RECURSIVE PriceTotal(_, _)
PriceTotal(vis, n) == IF n = 0 THEN 0 ELSE PriceTotal(vis, n - 1) + vis[n].price

C9_NoRecordWitness ==
    /\ Len(data) > 0
    /\ Len(chartData) = 0
    /\ stats = None

\* ------------------------------------------------------------ C10
BadPriceResolution(req) ==
    /\ Given(req.priceResolution)
    /\ NumberOf(req.priceResolution[1]) \notin {Some(150), Some(600)}

BadLookForward(req) ==
    /\ Given(req.lookForwardHours)
    /\ NumberOf(req.lookForwardHours[1]) \notin {Some(10 * h) : h \in 1..6}

BadFlag(value) == value # None /\ value \notin {Some("true"), Some("false")}

Rejected ==
    /\ pxUpstream = None
    /\ pxPhase = "done"
    /\ pxResponse # None
    /\ pxResponse[1].status = 400

\* What is forwarded is valid, and region is forwarded upper-cased.
ForwardedValid ==
    pxUpstream # None =>
        /\ pxUpstream[1].priceResolution \in Optional({"15", "60"})
        /\ pxUpstream[1].lookForwardHours \in Optional({"1", "2", "3", "4", "5", "6"})
        /\ pxUpstream[1].HomeAssistant \in Optional({"true", "false"})
        /\ pxUpstream[1].HomeAssistant15Min \in Optional({"true", "false"})
        /\ pxUpstream[1].region \in Optional({"FI", "SE1"})
        /\ Given(pxRequest[1].region) <=> pxUpstream[1].region # None
        /\ pxRequest[1].region = Some("fi") => pxUpstream[1].region = Some("FI")

\* C10 as stated: an invalid priceResolution, lookForwardHours or boolean
\* flag is answered with 400 and no upstream request; nothing invalid is
\* forwarded; region is forwarded upper-cased.
C10_InvalidRejected ==
    pxRequest # None =>
        /\ \/ BadPriceResolution(pxRequest[1])
           \/ BadLookForward(pxRequest[1])
           \/ BadFlag(pxRequest[1].HomeAssistant)
           \/ BadFlag(pxRequest[1].HomeAssistant15Min)
           => Rejected
        /\ ForwardedValid

\* C10 amended: a non-empty priceResolution that is not 15 or 60, or a
\* non-empty lookForwardHours that is no integer in [1,6], is answered with
\* 400 and no upstream request; a boolean flag that is not "true" or "false"
\* is left out of the upstream request, which is still made; nothing invalid
\* is forwarded; region is forwarded upper-cased.
C10_NumbersRejectedFlagsDropped ==
    pxRequest # None =>
        /\ BadPriceResolution(pxRequest[1]) \/ BadLookForward(pxRequest[1])
           => Rejected
        /\ ForwardedValid
        /\ pxUpstream # None /\ BadFlag(pxRequest[1].HomeAssistant)
           => pxUpstream[1].HomeAssistant = None
        /\ pxUpstream # None /\ BadFlag(pxRequest[1].HomeAssistant15Min)
           => pxUpstream[1].HomeAssistant15Min = None
        /\ /\ resolveType(pxRequest[1].type) # None
           /\ ~BadPriceResolution(pxRequest[1])
           /\ ~BadLookForward(pxRequest[1])
           => pxUpstream # None

\* A request with a flag of "yes" and a lower-case region goes upstream
\* without the flag, its region upper-cased.
C10_Witness ==
    /\ pxRequest # None
    /\ pxRequest[1].HomeAssistant = Some("yes")
    /\ pxRequest[1].region = Some("fi")
    /\ pxUpstream # None
    /\ pxUpstream[1].HomeAssistant = None
    /\ pxUpstream[1].region = Some("FI")

\* A lookForwardHours of 7 is answered with 400.
C10_RejectWitness ==
    /\ pxRequest # None
    /\ pxRequest[1].lookForwardHours = Some("7")
    /\ ~BadPriceResolution(pxRequest[1])
    /\ Rejected

\* ------------------------------------------------------------ C11
\* GET has returned a response to a request it took upstream.
Answered == pxPhase = "done" /\ pxReply # None

Is502 ==
    /\ pxResponse[1].status = 502
    /\ pxResponse[1].body = "error"
    /\ pxResponse[1].contentType = "application/json"

CachedFor(seconds) ==
    /\ pxResponse[1].cacheControl # None
    /\ pxResponse[1].cacheControl[1].sMaxAge = seconds

\* C11 as stated: for a request with valid parameters the response is 502
\* when the upstream fetch fails; otherwise it carries the upstream status,
\* body and content type and a 60-second cache directive, whatever the
\* upstream status.
C11_PassThroughAlwaysCached ==
    Answered =>
        IF pxReply[1].threw
        THEN Is502
        ELSE /\ pxResponse[1].status = pxReply[1].status
             /\ pxResponse[1].body = pxReply[1].body
             /\ pxReply[1].contentType # None
                => pxResponse[1].contentType = pxReply[1].contentType[1]
             /\ CachedFor(CACHE_SECONDS)

\* C11 amended: for a request with valid parameters the response is 502
\* when the upstream fetch fails, and also when the upstream status is one
\* that allows no body (204, 205, 304); otherwise it carries the upstream
\* status and body, the upstream content type or application/json when
\* upstream names none, and the 60-second cache directive exactly when the
\* upstream status is in 200..299.
C11_PassThrough ==
    Answered =>
        IF pxReply[1].threw \/ pxReply[1].status \in NullBodyStatuses
        THEN Is502 /\ pxResponse[1].cacheControl = None
        ELSE /\ pxResponse[1].status = pxReply[1].status
             /\ pxResponse[1].body = pxReply[1].body
             /\ pxResponse[1].contentType =
                   IF pxReply[1].contentType = None
                   THEN "application/json"
                   ELSE pxReply[1].contentType[1]
             /\ CachedFor(CACHE_SECONDS) <=> Ok(pxReply[1].status)
             /\ ~Ok(pxReply[1].status) => pxResponse[1].cacheControl = None

\* An upstream 404 in text/plain is passed on as it is, without the cache
\* directive.
C11_Witness ==
    /\ Answered
    /\ ~pxReply[1].threw
    /\ pxReply[1].status = 404
    /\ pxReply[1].contentType = Some("text/plain")
    /\ pxResponse[1].status = 404
    /\ pxResponse[1].body = "no data"
    /\ pxResponse[1].contentType = "text/plain"
    /\ pxResponse[1].cacheControl = None

\* An upstream 200 without a content type is passed on as application/json
\* with the cache directive.
C11_OkWitness ==
    /\ Answered
    /\ ~pxReply[1].threw
    /\ pxReply[1].status = 200
    /\ pxReply[1].contentType = None
    /\ pxResponse[1].contentType = "application/json"
    /\ CachedFor(CACHE_SECONDS)

\* The fetch threw and the response is 502.
C11_FailWitness ==
    /\ Answered
    /\ pxReply[1].threw
    /\ Is502

\* ------------------------------------------------------------ C14
\* What is displayed is right for the time `now`: no displayed point's
\* interval has ended, and the now marker, when shown, is at `now`.
Fresh(now) ==
    /\ \A k \in DOMAIN visibleData : visibleData[k].timestamp + stepMs > now
    /\ nowLineTimestamp # None => nowLineTimestamp[1] = now

\* A render that leaves data, tax selection and showPast as they were.
RerenderStep ==
    /\ props' = props
    /\ clock' = clock
    /\ nowTimestamp' # nowTimestamp \/ containerWidth' # containerWidth

\* C14: at every re-render with data, tax selection and showPast = false
\* unchanged, however far the clock has advanced since the last one, each
\* displayed point satisfies timestamp + stepMs > the time the render reads,
\* and the now marker, when shown, equals that time.
C14_FreshAtEveryRender ==
    [][RerenderStep /\ ~showPast => Fresh(nowTimestamp)']_vars

\* ------------------------------------------------------------ C12
\* This step runs a continuation: that of load Running, resumed with Outcome.
Resumed == Len(continuations') < Len(continuations)
Running == Head(continuations)
Outcome == Awaited(loads[Running])[1]

\* The today-only feed is requested at most once per load, and only after
\* the combined feed answered 404.
Sequenced ==
    \A i \in DOMAIN loads :
        /\ loads[i].requests \in
              {<<"todayAndDayForward">>, <<"todayAndDayForward", "today">>}
        /\ Len(loads[i].requests) = 2 =>
              /\ loads[i].primary # None
              /\ loads[i].primary[1].threw = "none"
              /\ loads[i].primary[1].status = 404

\* The combined feed answered with an OK status.
CombinedOk ==
    /\ loads[Running].pc = "primary"
    /\ Outcome.threw = "none"
    /\ Ok(Outcome.status)

\* A combined response that is non-OK and not 404, a non-OK fallback
\* response, or a fetch that failed without being aborted.
Failing ==
    \/ Outcome.threw = "error"
    \/ /\ Outcome.threw = "none"
       /\ ~Ok(Outcome.status)
       /\ loads[Running].pc = "fallback" \/ Outcome.status # 404

\* A successful combined response is displayed without a fallback request.
DisplayedWithoutFallback ==
    /\ data' = normalizePayload(Outcome.payload)
    /\ loads'[Running].requests = <<"todayAndDayForward">>
    /\ loads'[Running].pc = "done"

\* C12: within one load the today-only feed is requested at most once and
\* only after the combined feed answered 404; a successful combined response
\* is displayed without a fallback request; a combined response that is
\* non-OK and not 404, a non-OK fallback response or a non-abort fetch
\* failure ends the load with an error message set (one that is not blank,
\* so that the page shows it) and the displayed data empty.
C12_FallbackSequencing ==
    [][/\ Sequenced'
       /\ Resumed /\ CombinedOk => DisplayedWithoutFallback
       /\ Resumed /\ Failing =>
             /\ loads'[Running].pc = "done"
             /\ error' # None
             /\ error'[1] \notin Blank
             /\ data' = <<>>]_vars

\* The same with the error state merely set to a string, blank or not.
C12_ErrorStateSet ==
    [][/\ Sequenced'
       /\ Resumed /\ CombinedOk => DisplayedWithoutFallback
       /\ Resumed /\ Failing =>
             /\ loads'[Running].pc = "done"
             /\ error' # None
             /\ data' = <<>>]_vars

\* A load has asked for the today-only feed after a 404 and shows what that
\* feed answered.
C12_FallbackWitness ==
    /\ loads # <<>>
    /\ loads[1].pc = "done"
    /\ ~loads[1].aborted
    /\ loads[1].requests = <<"todayAndDayForward", "today">>
    /\ loads[1].fallback # None
    /\ Ok(loads[1].fallback[1].status)
    /\ Len(data) = 1
    /\ error = None

\* ------------------------------------------------------------ C13
\* This step starts a load while an earlier one exists.
Reloaded == Len(loads') > Len(loads) /\ loads # <<>>

Quiescent == loads # <<>> /\ \A i \in DOMAIN loads : loads[i].pc = "done"

\* What a load that ran to its end with this last outcome displays.
LastOutcome(load) ==
    IF load.fallback # None THEN load.fallback[1] ELSE load.primary[1]
DataOf(outcome) ==
    IF outcome.threw = "none" /\ Ok(outcome.status)
    THEN normalizePayload(outcome.payload)
    ELSE <<>>
ErrorOf(outcome) ==
    IF outcome.threw = "error" THEN Some("Failed to load prices.")
    ELSE IF Ok(outcome.status) THEN None
    ELSE Some(getErrorMessage(outcome.payload, outcome.statusText))

\* C13: a change of region or resolution aborts the earlier load; whenever a
\* continuation of an aborted load runs it writes neither the displayed
\* data nor the error message nor the loading flag; and once every load has
\* ended, data and error are those of the latest load and the loading flag
\* is false.
C13_SupersededLoads ==
    [][/\ Reloaded => loads'[Len(loads)].aborted
       /\ Resumed /\ loads[Running].aborted =>
             /\ data' = data
             /\ error' = error
             /\ isLoading' = isLoading
       /\ Quiescent' =>
             /\ ~isLoading'
             /\ data' = DataOf(LastOutcome(loads'[Len(loads')]))
             /\ error' = ErrorOf(LastOutcome(loads'[Len(loads')]))]_vars

\* The parts of C13 about the loading flag and the final data.
C13_LoadingFlagAndFinalData ==
    [][/\ Reloaded => loads'[Len(loads)].aborted
       /\ Resumed /\ loads[Running].aborted => isLoading' = isLoading
       /\ Quiescent' =>
             /\ ~isLoading'
             /\ data' = DataOf(LastOutcome(loads'[Len(loads')]))]_vars

====
